---- MODULE Spec2Model ----
(***************************************************************************)
(* Model of differ/mutationDiffer.go: the mutation differ fetches every    *)
(* candidate key from a source and a target bucket in batches, compares    *)
(* the two results and aggregates the differences.                         *)
(*                                                                         *)
(* Processes: Run (the orchestrator), reportStatus (the progress           *)
(* reporter), one DifferWorker per non-empty partition, and the GetEx      *)
(* completion callbacks of every batch instance.                           *)
(*                                                                         *)
(* Granularity.  A completion callback takes two steps, as in batch.get:   *)
(* it counts itself (atomic.AddUint32), then it writes its entry under the *)
(* entry's lock and, if it counted the last key, releases its half of the  *)
(* gate.  A worker takes one step per statement that touches shared state: *)
(* issuing a batch, the return of send (with the merge and the count on    *)
(* success, with the next attempt or addKeysWithError on a timeout), the   *)
(* count after addKeysWithError, and diff with addDiff.  The timer of send *)
(* may fire at any moment; a callback may arrive at any moment or never.   *)
(*                                                                         *)
(* Keys are the numbers 1, 2, ... (distinct strings); the empty string is  *)
(* 0.  The two buckets hold one answer per key for the whole run.          *)
(* utils.BalanceLoad, utils.ExponentialBackoffExecutor and                 *)
(* utils.WaitForWaitGroup are not part of the file and are modelled from   *)
(* the specification of the differ.                                        *)
(***************************************************************************)
EXTENDS Integers, Sequences, FiniteSets, TLC

\* ------------------------------------------------------------------ bounds
MaxKeys == 2
MaxWorkers == 2
MaxBatchSize == 2
MaxAttempts == 2
\* how many batch instances whose send has returned may, at one time, still
\* have callbacks landing; the callbacks of any further one never arrive
MaxLateBatches == 1

\* the longest partition of a worker considered on its own
MaxPartition == 3

\* ------------------------------------------------------------- constants
KeyNotFoundErrMsg == "key not found"
OtherErrMsg == "temporary failure"
NoErr == ""
NoKey == 0

VARIABLES
    fileKeys,           \* content of the input diff-keys file
    numberOfWorkers,    \* d.numberOfWorkers
    batchSize,          \* d.batchSize
    maxNumOfSendBatchRetry, \* d.maxNumOfSendBatchRetry
    runPc,              \* position of Run
    runErr,             \* what Run returned
    diffKeys,           \* Run's local diffKeys
    sourceBucket,       \* d.sourceBucket ("nil" or "open")
    targetBucket,       \* d.targetBucket
    launchI,            \* loop variable i of Run
    waitGroup,          \* Run's waitGroup counter
    finChan,            \* "open" or "closed"
    missingFromSource,  \* d.missingFromSource
    missingFromTarget,  \* d.missingFromTarget
    diff,               \* d.diff
    keysWithError,      \* d.keysWithError
    numKeysProcessed,   \* d.numKeysProcessed
    numKeysWithErrors,  \* d.numKeysWithErrors
    outputs,            \* the artifact writes attempted so far, in order
    reporter,           \* "notStarted", "running" or "stopped"
    answers,            \* what each bucket answers for each key
    exhausted,          \* history: the keys of the batches whose retries ran out
    dw,                 \* the DifferWorkers
    batches             \* per worker, the batch instances with callbacks outstanding

vars == <<fileKeys, numberOfWorkers, batchSize, maxNumOfSendBatchRetry, runPc, runErr, diffKeys,
          sourceBucket, targetBucket, launchI, waitGroup, finChan,
          missingFromSource, missingFromTarget, diff, keysWithError,
          numKeysProcessed, numKeysWithErrors, outputs, reporter,
          answers, exhausted, dw, batches>>

cfgVars == <<fileKeys, numberOfWorkers, batchSize, maxNumOfSendBatchRetry,
             answers>>
aggVars == <<missingFromSource, missingFromTarget, diff, keysWithError,
             numKeysProcessed, numKeysWithErrors, exhausted>>
repVars == <<reporter>>
runVars == <<runPc, runErr, diffKeys, sourceBucket, targetBucket, launchI,
             waitGroup, finChan, outputs>>

Workers == 0 .. (MaxWorkers - 1)
Keys == 1 .. MaxKeys
Sides == {"source", "target"}

Min(a, b) == IF a < b THEN a ELSE b

Range(s) == {s[i] : i \in 1 .. Len(s)}

\* the empty function (an empty Go map)
EmptyMap == [k \in {} |-> 0]

\* s[lo:hi] of Go (0-based, hi exclusive)
Slice(s, lo, hi) == SubSeq(s, lo + 1, hi)

\* -------------------------------------------------------- fetched values
\* *gocbcore.GetResult: nil is <<>>, a pointer to document d is <<d>>
Nil == <<>>
Ptr(d) == <<d>>

Bit == {0, 1}
Docs == [Value : Bit, Flags : Bit, Datatype : Bit, Cas : Bit]
DocA == [Value |-> 0, Flags |-> 0, Datatype |-> 0, Cas |-> 0]
DocB == [Value |-> 1, Flags |-> 0, Datatype |-> 0, Cas |-> 0]

\* what a GetEx callback is called with: (result, err)
Response(d) == [Result |-> Ptr(d), Error |-> NoErr]
NotFound == [Result |-> Nil, Error |-> KeyNotFoundErrMsg]
OtherError == [Result |-> Nil, Error |-> OtherErrMsg]
AllResponses == {Response(d) : d \in Docs} \cup {NotFound, OtherError}
\* the <<source answer, target answer>> pairs a key can have in a run of the
\* whole differ: identical documents, missing on the source, different
\* documents, missing on the target, a failed fetch on the source
Cases ==
    << <<Response(DocA), Response(DocA)>>,
       <<NotFound, Response(DocA)>>,
       <<Response(DocA), Response(DocB)>>,
       <<Response(DocB), NotFound>>,
       <<OtherError, Response(DocB)>> >>

\* the contents of the two buckets: key k is in case k + shift (cyclically)
Fixture(shift) ==
    [x \in Sides \X Keys |->
        LET c == Cases[((x[2] - 1 + shift) % Len(Cases)) + 1]
        IN  IF x[1] = "source" THEN c[1] ELSE c[2]]

Fixtures == {Fixture(shift) : shift \in 0 .. (Len(Cases) - 1)}

\* &GetResult{}
EmptyResult == [Key |-> NoKey, Result |-> Nil, Error |-> NoErr]


\* ------------------------------------------------------------ comparator
isKeyNotFoundError(err) == err # NoErr /\ err = KeyNotFoundErrMsg

\* a faulty variant: the version token is left out of the comparison
areGetResultsTheSame_NoCas(result1, result2) ==
    IF result1 = Nil THEN result2 = Nil
    ELSE IF result2 = Nil THEN FALSE
    ELSE /\ result1[1].Value = result2[1].Value
         /\ result1[1].Flags = result2[1].Flags
         /\ result1[1].Datatype = result2[1].Datatype

\* reflect.DeepEqual on Value, == on Flags, Datatype and Cas
areGetResultsTheSame(result1, result2) ==
    IF result1 = Nil THEN result2 = Nil
    ELSE IF result2 = Nil THEN FALSE
    ELSE /\ result1[1].Value = result2[1].Value
         /\ result1[1].Flags = result2[1].Flags
         /\ result1[1].Datatype = result2[1].Datatype
         /\ result1[1].Cas = result2[1].Cas

\* a faulty variant: the target entry is not tested for the placeholder
Classify_NoTargetCheck(s, t) ==
    IF s.Key = NoKey THEN "skipped"
    ELSE IF isKeyNotFoundError(s.Error) /\ ~isKeyNotFoundError(t.Error)
        THEN "MissingFromSource"
    ELSE IF ~isKeyNotFoundError(s.Error) /\ isKeyNotFoundError(t.Error)
        THEN "MissingFromTarget"
    ELSE IF ~areGetResultsTheSame(s.Result, t.Result) THEN "Mismatch"
    ELSE "Match"

\* one iteration of the loop of DifferWorker.diff: what happens to a key
\* with source entry s and target entry t
Classify(s, t) ==
    IF s.Key = NoKey THEN "skipped"
    ELSE IF t.Key = NoKey THEN "skipped"
    ELSE IF isKeyNotFoundError(s.Error) /\ ~isKeyNotFoundError(t.Error)
        THEN "MissingFromSource"
    ELSE IF ~isKeyNotFoundError(s.Error) /\ isKeyNotFoundError(t.Error)
        THEN "MissingFromTarget"
    ELSE IF ~areGetResultsTheSame(s.Result, t.Result) THEN "Mismatch"
    ELSE "Match"

KeysClassified(d, class) ==
    {k \in DOMAIN d.sourceResults :
        Classify(d.sourceResults[k], d.targetResults[k]) = class}

\* a faulty variant: the key missing from the source is stored with the source's result
LocalMissingFromSource_SourceResult(d) ==
    [k \in KeysClassified(d, "MissingFromSource") |-> d.sourceResults[k].Result]

\* the three local maps DifferWorker.diff builds for worker record d
LocalMissingFromSource(d) ==
    [k \in KeysClassified(d, "MissingFromSource") |-> d.targetResults[k].Result]

LocalMissingFromTarget(d) ==
    [k \in KeysClassified(d, "MissingFromTarget") |-> d.sourceResults[k].Result]

LocalDiff(d) ==
    [k \in KeysClassified(d, "Mismatch") |->
        <<d.sourceResults[k].Result, d.targetResults[k].Result>>]

\* GetResult.Clone: a shallow copy taken under the entry's read lock
Clone(r) == [Key |-> r.Key, Result |-> r.Result, Error |-> r.Error]

\* ------------------------------------------------------- load balancing
\* utils.BalanceLoad: contiguous ranges, the first (load % workers) one longer
BalanceLoad(workers, load) ==
    [i \in 0 .. (workers - 1) |->
        LET q == load \div workers
            r == load % workers
            low == i * q + Min(i, r)
        IN  <<low, low + q + (IF i < r THEN 1 ELSE 0)>>]

\* ----------------------------------------------------------------- batch
InFlight == [st |-> "inflight", newCount |-> 0]

\* NewBatch: both result maps pre-populated with empty entries
NewBatch(d, startIndex, endIndex) ==
    LET ks == Slice(d.keys, startIndex, endIndex)
    IN  [keys |-> ks,
         waitGroup |-> 0,
         sourceResultCount |-> 0,
         targetResultCount |-> 0,
         sourceResults |-> [k \in Range(ks) |-> EmptyResult],
         targetResults |-> [k \in Range(ks) |-> EmptyResult],
         cb |-> [x \in {} |-> InFlight],
         returned |-> FALSE]

\* the first half of batch.send: waitGroup.Add(2) and one GetEx per key and side
IssueGets(b) ==
    [b EXCEPT !.waitGroup = 2,
              !.cb = [x \in Range(b.keys) \X Sides |-> InFlight]]

\* utils.WaitForWaitGroup has signalled doneChan
DoneChanReady(b) == b.waitGroup = 0

\* a batch instance nothing refers to any more: send has returned and every
\* callback has run
Collectable(b) ==
    b.returned /\ \A x \in DOMAIN b.cb : b.cb[x].st = "done"

Collect(bs) == SelectSeq(bs, LAMBDA b : ~Collectable(b))

\* send returns on the newest instance of bs: the instance stays while its
\* callbacks may still land (keep), or none of them ever arrives
Retire(bs, keep) ==
    IF keep
    THEN Collect([bs EXCEPT ![Len(bs)].returned = TRUE])
    ELSE SubSeq(bs, 1, Len(bs) - 1)

\* utils.ExponentialBackoffExecutor: another attempt is made while the budget lasts
ShouldRetry(attempt) == attempt < maxNumOfSendBatchRetry

\* DifferWorker.mergeResults
mergeResults(d, b) ==
    [d EXCEPT !.sourceResults =
                  [k \in DOMAIN b.sourceResults |-> Clone(b.sourceResults[k])] @@ @,
              !.targetResults =
                  [k \in DOMAIN b.targetResults |-> Clone(b.targetResults[k])] @@ @]

\* atomic.AddUint32; the counters stay far below 2^32 for the key lists
\* considered, so the wrap-around is not modelled
AddUint32(x, delta) == x + delta


\* ---------------------------------------------------------------- state
\* a DifferWorker that Run has not created
NoWorker ==
    [pc |-> "notLaunched", keys |-> <<>>, index |-> 0, startIndex |-> 0,
     endIndex |-> 0, attempt |-> 0,
     sourceResults |-> EmptyMap, targetResults |-> EmptyMap]

\* NewDifferWorker, at the start of getResults
NewDifferWorker(keys) ==
    [NoWorker EXCEPT !.pc = "getResults", !.keys = keys]

KeyLists == {[i \in 1 .. n |-> i] : n \in 0 .. MaxKeys}

\* NewMutationDiffer, before Run
Init ==
    /\ fileKeys \in KeyLists
    /\ numberOfWorkers \in 1 .. MaxWorkers
    /\ batchSize \in 1 .. MaxBatchSize
    /\ maxNumOfSendBatchRetry \in 1 .. MaxAttempts
    /\ runPc = "load"
    /\ runErr = "none"
    /\ diffKeys = <<>>
    /\ sourceBucket = "nil"
    /\ targetBucket = "nil"
    /\ launchI = 0
    /\ waitGroup = 0
    /\ finChan = "open"
    /\ missingFromSource = EmptyMap
    /\ missingFromTarget = EmptyMap
    /\ diff = EmptyMap
    /\ keysWithError = <<>>
    /\ numKeysProcessed = 0
    /\ numKeysWithErrors = 0
    /\ exhausted = {}
    /\ outputs = <<>>
    /\ reporter = "notStarted"
    /\ answers \in Fixtures
    /\ dw = [w \in Workers |-> NoWorker]
    /\ batches = [w \in Workers |-> <<>>]

\* ------------------------------------------------------------------ Run
\* a faulty variant: the error of initialize is not returned
AfterInitialize_NoReturn(err) == "reportStatus"

\* Run after a step that returned err: return err, or go on to next
AfterLoadDiffKeys(err) == IF err # "none" THEN "returned" ELSE "initialize"

AfterInitialize(err) == IF err # "none" THEN "returned" ELSE "reportStatus"

\* d.loadDiffKeys(): the file is read and parsed, or Run returns the error
LoadDiffKeys ==
    /\ runPc = "load"
    /\ \E ok \in BOOLEAN :
          /\ diffKeys' = IF ok THEN fileKeys ELSE <<>>
          /\ runErr' = IF ok THEN "none" ELSE "loadDiffKeys"
          /\ runPc' = AfterLoadDiffKeys(runErr')
    /\ UNCHANGED <<cfgVars, sourceBucket, targetBucket, launchI, waitGroup,
                   finChan, aggVars, outputs, repVars, dw, batches>>

\* d.initialize(): the source bucket is opened, then the target bucket
initialize ==
    /\ runPc = "initialize"
    /\ \E outcome \in {"sourceFails", "targetFails", "ok"} :
          /\ sourceBucket' = IF outcome = "sourceFails" THEN "nil" ELSE "open"
          /\ targetBucket' = IF outcome = "ok" THEN "open" ELSE "nil"
          /\ runErr' = IF outcome = "ok" THEN "none" ELSE "initialize"
          /\ runPc' = AfterInitialize(runErr')
    /\ UNCHANGED <<cfgVars, diffKeys, launchI, waitGroup, finChan, aggVars,
                   outputs, repVars, dw, batches>>

\* go d.reportStatus(len(diffKeys))
StartReportStatus ==
    /\ runPc = "reportStatus"
    /\ reporter' = "running"
    /\ runPc' = "launch"
    /\ UNCHANGED <<cfgVars, runErr, diffKeys, sourceBucket, targetBucket,
                   launchI, waitGroup, finChan, aggVars, outputs,
                   dw, batches>>

\* Run skips a worker whose range is empty
SkipsWorker(lowIndex, highIndex) == lowIndex = highIndex

\* a faulty variant: the slice ends one key early
WorkerKeys_OffByOne(lowIndex, highIndex) == Slice(diffKeys, lowIndex, highIndex - 1)

\* the keys Run hands to a worker: diffKeys[lowIndex:highIndex]
WorkerKeys(lowIndex, highIndex) == Slice(diffKeys, lowIndex, highIndex)

\* one iteration of the launch loop of Run
LaunchWorker ==
    /\ runPc = "launch"
    /\ launchI < numberOfWorkers
    /\ LET loadDistribution == BalanceLoad(numberOfWorkers, Len(diffKeys))
           lowIndex == loadDistribution[launchI][1]
           highIndex == loadDistribution[launchI][2]
       IN  IF SkipsWorker(lowIndex, highIndex)
           THEN UNCHANGED <<dw, waitGroup>>
           ELSE /\ dw' = [dw EXCEPT ![launchI] =
                             NewDifferWorker(WorkerKeys(lowIndex, highIndex))]
                /\ waitGroup' = waitGroup + 1
    /\ launchI' = launchI + 1
    /\ UNCHANGED <<cfgVars, runPc, runErr, diffKeys, sourceBucket, targetBucket,
                   finChan, aggVars, outputs, repVars, batches>>

\* waitGroup.Wait() returns
Joined(counter) == counter = 0

\* the launch loop ends; waitGroup.Wait() returns; close(d.finChan)
WaitAndClose ==
    /\ runPc = "launch"
    /\ launchI >= numberOfWorkers
    /\ Joined(waitGroup)
    /\ finChan' = "closed"
    /\ runPc' = "writeDiff"
    /\ UNCHANGED <<cfgVars, runErr, diffKeys, sourceBucket, targetBucket,
                   launchI, waitGroup, aggVars, outputs, repVars, dw, batches>>

\* the keys writeKeysWithDiff collects
DiffKeysOf(mfs, mft, df) == DOMAIN mfs \cup DOMAIN mft \cup DOMAIN df

\* what the three writers are given to write
ArtifactContent(artifact) ==
    CASE artifact = "diffKeys" ->
            [keys |-> DiffKeysOf(missingFromSource, missingFromTarget, diff)]
      [] artifact = "errorKeys" -> [keys |-> keysWithError]
      [] artifact = "diffDetails" ->
            [Mismatch |-> diff,
             MissingFromSource |-> missingFromSource,
             MissingFromTarget |-> missingFromTarget]

WriteOf(artifact, ok) ==
    [artifact |-> artifact, ok |-> ok, content |-> ArtifactContent(artifact)]

\* a faulty variant: every write is attempted, whatever became of the others
writeDiffAttempts_Independent(okDiffKeys, okErrorKeys, okDiffDetails) ==
    <<WriteOf("diffKeys", okDiffKeys), WriteOf("errorKeys", okErrorKeys),
      WriteOf("diffDetails", okDiffDetails)>>

\* the writes writeDiff attempts, given which of them would succeed:
\* writeKeysWithDiff, then writeKeysWithError, then writeDiffDetails, with a
\* return at the first error
writeDiffAttempts(okDiffKeys, okErrorKeys, okDiffDetails) ==
    <<WriteOf("diffKeys", okDiffKeys)>>
    \o (IF okDiffKeys THEN <<WriteOf("errorKeys", okErrorKeys)>> ELSE <<>>)
    \o (IF okDiffKeys /\ okErrorKeys
        THEN <<WriteOf("diffDetails", okDiffDetails)>> ELSE <<>>)

\* d.writeDiff(); Run returns nil whatever writeDiff returned
writeDiff ==
    /\ runPc = "writeDiff"
    /\ \E okDiffKeys, okErrorKeys, okDiffDetails \in BOOLEAN :
          outputs' = writeDiffAttempts(okDiffKeys, okErrorKeys, okDiffDetails)
    /\ runPc' = "returned"
    /\ UNCHANGED <<cfgVars, runErr, diffKeys, sourceBucket, targetBucket,
                   launchI, waitGroup, finChan, aggVars, repVars, dw, batches>>

\* --------------------------------------------------------- reportStatus
\* a faulty variant: the reporter returns as soon as any key is processed
TickReturns_AnyProgress(processed, totalKeys) == processed > 0

\* if numKeysProcessed == uint32(totalKeys) { return }
TickReturns(processed, totalKeys) == processed = totalKeys

\* case <-ticker.C: the counters are sampled and printed (the printed lines
\* and the local prevNumKeysProcessed they are computed from are not state
\* of the model); the reporter returns once every key is processed
Tick ==
    /\ reporter = "running"
    /\ reporter' = IF TickReturns(numKeysProcessed, Len(diffKeys))
                   THEN "stopped" ELSE reporter
    /\ UNCHANGED <<cfgVars, runVars, aggVars, dw, batches>>

\* case <-d.finChan
FinChanClosed ==
    /\ reporter = "running"
    /\ finChan = "closed"
    /\ reporter' = "stopped"
    /\ UNCHANGED <<cfgVars, runVars, aggVars, dw, batches>>


\* --------------------------------------------------------- DifferWorker
RECURSIVE SumOver(_, _)
SumOver(S, f) ==
    IF S = {} THEN 0
    ELSE LET x == CHOOSE y \in S : TRUE IN f[x] + SumOver(S \ {x}, f)

\* the returned batch instances that still have callbacks outstanding
LateBatches ==
    SumOver(Workers,
            [w \in Workers |-> Len(SelectSeq(batches[w], LAMBDA b : b.returned))])

CanKeep(keep) == keep => LateBatches < MaxLateBatches

\* the batch instance worker w is sending: the newest one
Current(w) == Len(batches[w])

\* the end of the batch that getResults starts at index
BatchEnd(index, len) ==
    IF index + batchSize < len THEN index + batchSize ELSE len

\* a faulty variant: the next batch starts one key further, not batchSize keys
AfterBatch_StepsByOne(d) ==
    IF d.index + batchSize < Len(d.keys)
    THEN [d EXCEPT !.pc = "getResults", !.index = d.index + 1]
    ELSE [d EXCEPT !.pc = "diff"]

\* getResults after sendBatchWithRetry(startIndex, endIndex) has returned:
\* the next batch, or break and on to diff
AfterBatch(d) ==
    IF d.index + batchSize < Len(d.keys)
    THEN [d EXCEPT !.pc = "getResults", !.index = d.index + batchSize]
    ELSE [d EXCEPT !.pc = "diff"]

\* getResults calls sendBatchWithRetry; the first attempt creates its batch
\* and issues the fetches (a launched worker has a key, and index stays below
\* len(keys) after "continue", so the loop's first test never breaks)
SendBatch(w) ==
    /\ dw[w].pc = "getResults"
    /\ dw[w].index < Len(dw[w].keys)
    /\ LET startIndex == dw[w].index
           endIndex == BatchEnd(dw[w].index, Len(dw[w].keys))
       IN  /\ dw' = [dw EXCEPT ![w] =
                        [@ EXCEPT !.pc = "send", !.startIndex = startIndex,
                                  !.endIndex = endIndex, !.attempt = 1]]
           /\ batches' = [batches EXCEPT ![w] =
                            Append(@, IssueGets(NewBatch(dw[w], startIndex, endIndex)))]
    /\ UNCHANGED <<cfgVars, runVars, aggVars, repVars>>

\* a faulty variant: a batch counts as one processed key
ProcessedAfter_PerBatch(processed, startIndex, endIndex) == AddUint32(processed, 1)

\* a faulty variant: the end of the batch is added, not its length
ProcessedAfter_EndIndex(processed, startIndex, endIndex) ==
    AddUint32(processed, endIndex)

\* the last statement of sendBatchWithRetry:
\* atomic.AddUint32(&numKeysProcessed, uint32(endIndex-startIndex))
ProcessedAfter(processed, startIndex, endIndex) ==
    AddUint32(processed, endIndex - startIndex)

\* what a successful send leaves in the worker: the merged results
OnSendOk(d, b) == mergeResults(d, b)

\* case <-doneChan: send returns nil, the results are merged and the keys
\* are counted as processed
SendOk(w) ==
    /\ dw[w].pc = "send"
    /\ DoneChanReady(batches[w][Current(w)])
    /\ dw' = [dw EXCEPT ![w] = AfterBatch(OnSendOk(@, batches[w][Current(w)]))]
    /\ numKeysProcessed' =
          ProcessedAfter(numKeysProcessed, dw[w].startIndex, dw[w].endIndex)
    /\ \E keep \in BOOLEAN :
          CanKeep(keep) /\ batches' = [batches EXCEPT ![w] = Retire(@, keep)]
    /\ UNCHANGED <<cfgVars, runVars, missingFromSource, missingFromTarget, diff,
                   keysWithError, numKeysWithErrors, exhausted, repVars>>

\* a faulty variant: the results of a failed attempt are merged too
OnSendError_Merges(d, b) == mergeResults(d, b)

\* what a failed attempt leaves in the worker: nothing
OnSendError(d, b) == d

\* case <-timer.C with attempts left: the executor runs sendBatchFunc again,
\* on a new batch
SendTimeoutRetry(w) ==
    /\ dw[w].pc = "send"
    /\ ShouldRetry(dw[w].attempt)
    /\ dw' = [dw EXCEPT ![w] =
                 [OnSendError(@, batches[w][Current(w)])
                     EXCEPT !.attempt = dw[w].attempt + 1]]
    /\ \E keep \in BOOLEAN :
          /\ CanKeep(keep)
          /\ batches' = [batches EXCEPT ![w] =
                            Append(Retire(@, keep),
                                   IssueGets(NewBatch(dw[w], dw[w].startIndex,
                                                      dw[w].endIndex)))]
    /\ UNCHANGED <<cfgVars, runVars, aggVars, repVars>>

\* MutationDiffer.addKeysWithError
addKeysWithError(list, keys) == list \o keys

\* a faulty variant: the last attempt waits for doneChan alone, without a timer
SendTimeoutFinal_NoTimer(w) ==
    /\ dw[w].pc = "send"
    /\ FALSE
    /\ UNCHANGED vars

\* case <-timer.C on the last attempt: the executor returns the error and
\* the keys of the batch are recorded as keys with error
SendTimeoutFinal(w) ==
    /\ dw[w].pc = "send"
    /\ ~ShouldRetry(dw[w].attempt)
    /\ LET errKeys == Slice(dw[w].keys, dw[w].startIndex, dw[w].endIndex)
       IN  /\ keysWithError' = addKeysWithError(keysWithError, errKeys)
           /\ numKeysWithErrors' = AddUint32(numKeysWithErrors, Len(errKeys))
           /\ exhausted' = exhausted \cup Range(errKeys)
    /\ dw' = [dw EXCEPT ![w] =
                 [OnSendError(@, batches[w][Current(w)]) EXCEPT !.pc = "count"]]
    /\ \E keep \in BOOLEAN :
          CanKeep(keep) /\ batches' = [batches EXCEPT ![w] = Retire(@, keep)]
    /\ UNCHANGED <<cfgVars, runVars, missingFromSource, missingFromTarget, diff,
                   numKeysProcessed, repVars>>

\* keys with error are also counted toward keysProcessed
CountProcessed(w) ==
    /\ dw[w].pc = "count"
    /\ numKeysProcessed' =
          ProcessedAfter(numKeysProcessed, dw[w].startIndex, dw[w].endIndex)
    /\ dw' = [dw EXCEPT ![w] = AfterBatch(@)]
    /\ UNCHANGED <<cfgVars, runVars, missingFromSource, missingFromTarget, diff,
                   keysWithError, numKeysWithErrors, exhausted, repVars, batches>>

\* a faulty variant: the aggregate map is replaced by the worker's local one
addDiff_Replaces(aggregate, local) == local

\* MutationDiffer.addDiff on one of the three maps: every local entry
\* overwrites the aggregate's
addDiff(aggregate, local) == local @@ aggregate

\* DifferWorker.diff, then the deferred waitGroup.Done() of run
Diff(w) ==
    /\ dw[w].pc = "diff"
    /\ missingFromSource' = addDiff(missingFromSource, LocalMissingFromSource(dw[w]))
    /\ missingFromTarget' = addDiff(missingFromTarget, LocalMissingFromTarget(dw[w]))
    /\ diff' = addDiff(diff, LocalDiff(dw[w]))
    /\ waitGroup' = waitGroup - 1
    /\ dw' = [dw EXCEPT ![w].pc = "done"]
    /\ UNCHANGED <<cfgVars, runPc, runErr, diffKeys, sourceBucket, targetBucket,
                   launchI, finChan, outputs, keysWithError, numKeysProcessed,
                   numKeysWithErrors, exhausted, repVars, batches>>

\* ------------------------------------------------------ GetEx callbacks
CountOf(b, side) ==
    IF side = "source" THEN b.sourceResultCount ELSE b.targetResultCount

\* the first part of getCallbackFunc: atomic.AddUint32 on the side's counter
CountCallback(b, key, side) ==
    LET newCount == AddUint32(CountOf(b, side), 1)
    IN  [b EXCEPT !.sourceResultCount = IF side = "source" THEN newCount ELSE @,
                  !.targetResultCount = IF side = "target" THEN newCount ELSE @,
                  !.cb[<<key, side>>] = [st |-> "counted", newCount |-> newCount]]

\* a faulty variant: every callback releases the gate
RecordCallback_ReleasesAlways(b, key, side, resp) ==
    LET entry == [Key |-> key, Result |-> resp.Result, Error |-> resp.Error]
    IN  [b EXCEPT !.sourceResults[key] = IF side = "source" THEN entry ELSE @,
                  !.targetResults[key] = IF side = "target" THEN entry ELSE @,
                  !.waitGroup = @ - 1,
                  !.cb[<<key, side>>] = [st |-> "done", newCount |-> 0]]

\* the second part of getCallbackFunc: the entry is written under its lock,
\* and the callback that counted the last key releases its half of the gate
RecordCallback(b, key, side, resp) ==
    LET entry == [Key |-> key, Result |-> resp.Result, Error |-> resp.Error]
        last == b.cb[<<key, side>>].newCount = Len(b.keys)
    IN  [b EXCEPT !.sourceResults[key] = IF side = "source" THEN entry ELSE @,
                  !.targetResults[key] = IF side = "target" THEN entry ELSE @,
                  !.waitGroup = IF last THEN @ - 1 ELSE @,
                  !.cb[<<key, side>>] = [st |-> "done", newCount |-> 0]]

\* a fetch completes: its callback starts and counts itself
CallbackCount(w, i, key, side) ==
    /\ i \in 1 .. Len(batches[w])
    /\ <<key, side>> \in DOMAIN batches[w][i].cb
    /\ batches[w][i].cb[<<key, side>>].st = "inflight"
    /\ batches' = [batches EXCEPT ![w][i] = CountCallback(@, key, side)]
    /\ UNCHANGED <<cfgVars, runVars, aggVars, repVars, dw>>

\* a faulty variant: the worker's maps share the entries of the batch (no
\* Clone), so that the callback writes through to the worker
CallbackRecord_SharedEntries(w, i, key, side) ==
    /\ i \in 1 .. Len(batches[w])
    /\ <<key, side>> \in DOMAIN batches[w][i].cb
    /\ batches[w][i].cb[<<key, side>>].st = "counted"
    /\ batches' = [batches EXCEPT ![w] =
                      Collect([@ EXCEPT ![i] =
                          RecordCallback(@, key, side, answers[<<side, key>>])])]
    /\ LET resp == answers[<<side, key>>]
           entry == [Key |-> key, Result |-> resp.Result, Error |-> resp.Error]
       IN  dw' = IF key \in DOMAIN dw[w].sourceResults
                 THEN [dw EXCEPT
                         ![w].sourceResults[key] = IF side = "source" THEN entry ELSE @,
                         ![w].targetResults[key] = IF side = "target" THEN entry ELSE @]
                 ELSE dw
    /\ UNCHANGED <<cfgVars, runVars, aggVars, repVars>>

\* the callback records the result it was called with
CallbackRecord(w, i, key, side) ==
    /\ i \in 1 .. Len(batches[w])
    /\ <<key, side>> \in DOMAIN batches[w][i].cb
    /\ batches[w][i].cb[<<key, side>>].st = "counted"
    /\ batches' = [batches EXCEPT ![w] =
                      Collect([@ EXCEPT ![i] =
                          RecordCallback(@, key, side, answers[<<side, key>>])])]
    /\ UNCHANGED <<cfgVars, runVars, aggVars, repVars, dw>>

\* ----------------------------------------------------------------- spec
\* no worker has more instances at a time than the late ones and its current one
MaxInstances == MaxLateBatches + 1

RunStep ==
    \/ LoadDiffKeys
    \/ initialize
    \/ StartReportStatus
    \/ LaunchWorker
    \/ WaitAndClose
    \/ writeDiff

ReporterStep == Tick \/ FinChanClosed

WorkerStep(w) ==
    \/ SendBatch(w)
    \/ SendOk(w)
    \/ SendTimeoutRetry(w)
    \/ SendTimeoutFinal(w)
    \/ CountProcessed(w)
    \/ Diff(w)

CallbackStep ==
    \E w \in Workers, i \in 1 .. MaxInstances, key \in Keys, side \in Sides :
        \/ CallbackCount(w, i, key, side)
        \/ CallbackRecord(w, i, key, side)

Next ==
    \/ RunStep
    \/ ReporterStep
    \/ \E w \in Workers : WorkerStep(w)
    \/ CallbackStep

Spec == Init /\ [][Next]_vars


\* the scheduler runs every goroutine that can take a step, the timer of a
\* waiting send fires and the ticker ticks; no callback is ever guaranteed
\* to arrive
Fairness ==
    /\ WF_vars(RunStep)
    /\ WF_vars(ReporterStep)
    /\ \A w \in Workers : WF_vars(WorkerStep(w))

LiveSpec == Init /\ [][Next]_vars /\ Fairness

\* ------------------------------------------------ the comparator alone
\* what mergeResults leaves for a key whose bucket answers resp: the entry
\* the callback wrote or, when the callback had not written yet, the placeholder
MergedEntry(key, resp, written) ==
    IF written
    THEN [Key |-> key, Result |-> resp.Result, Error |-> resp.Error]
    ELSE EmptyResult

\* a worker with one key in front of diff, its two merged entries being any
\* two entries that callbacks can have written
InitCmp ==
    /\ fileKeys = <<1>>
    /\ numberOfWorkers = 1
    /\ batchSize = 1
    /\ maxNumOfSendBatchRetry = 1
    /\ runPc = "launch"
    /\ runErr = "none"
    /\ diffKeys = fileKeys
    /\ sourceBucket = "open"
    /\ targetBucket = "open"
    /\ launchI = 1
    /\ waitGroup = 1
    /\ finChan = "open"
    /\ missingFromSource = EmptyMap
    /\ missingFromTarget = EmptyMap
    /\ diff = EmptyMap
    /\ keysWithError = <<>>
    /\ numKeysProcessed = 1
    /\ numKeysWithErrors = 0
    /\ exhausted = {}
    /\ outputs = <<>>
    /\ reporter = "running"
    /\ batches = [w \in Workers |-> <<>>]
    /\ \E s \in AllResponses, t \in AllResponses :
          answers = [x \in Sides \X Keys |->
                        IF x[2] # 1 THEN NotFound
                        ELSE IF x[1] = "source" THEN s ELSE t]
    /\ \E sWritten \in BOOLEAN, tWritten \in BOOLEAN :
          dw = [w \in Workers |->
                  IF w = 0
                  THEN [NewDifferWorker(<<1>>) EXCEPT
                           !.pc = "diff", !.endIndex = 1, !.attempt = 1,
                           !.sourceResults =
                               [k \in {1} |->
                                   MergedEntry(k, answers[<<"source", k>>], sWritten)],
                           !.targetResults =
                               [k \in {1} |->
                                   MergedEntry(k, answers[<<"target", k>>], tWritten)]]
                  ELSE NoWorker]

NextCmp == \E w \in Workers : Diff(w)

SpecCmp == InitCmp /\ [][NextCmp]_vars

\* ---------------------------------------------------- one worker alone
PartitionKeys == 1 .. MaxPartition

\* one worker at the start of getResults with a partition of 1 to
\* MaxPartition keys; every key is on both buckets, with documents that
\* differ for the odd keys
InitBatch ==
    /\ fileKeys \in {[i \in 1 .. n |-> i] : n \in 1 .. MaxPartition}
    /\ numberOfWorkers = 1
    /\ batchSize \in 1 .. MaxBatchSize
    /\ maxNumOfSendBatchRetry \in 1 .. MaxAttempts
    /\ runPc = "launch"
    /\ runErr = "none"
    /\ diffKeys = fileKeys
    /\ sourceBucket = "open"
    /\ targetBucket = "open"
    /\ launchI = 1
    /\ waitGroup = 1
    /\ finChan = "open"
    /\ missingFromSource = EmptyMap
    /\ missingFromTarget = EmptyMap
    /\ diff = EmptyMap
    /\ keysWithError = <<>>
    /\ numKeysProcessed = 0
    /\ numKeysWithErrors = 0
    /\ exhausted = {}
    /\ outputs = <<>>
    /\ reporter = "running"
    /\ answers = [x \in Sides \X PartitionKeys |->
                     IF x[1] = "target" /\ x[2] % 2 = 1
                     THEN Response(DocB) ELSE Response(DocA)]
    /\ dw = [w \in Workers |->
                IF w = 0 THEN NewDifferWorker(fileKeys) ELSE NoWorker]
    /\ batches = [w \in Workers |-> <<>>]

NextBatch ==
    \/ WorkerStep(0)
    \/ \E i \in 1 .. MaxInstances, key \in PartitionKeys, side \in Sides :
          \/ CallbackCount(0, i, key, side)
          \/ CallbackRecord(0, i, key, side)

SpecBatch == InitBatch /\ [][NextBatch]_vars


\* =================================================================== claims
Count(seq, x) == Cardinality({i \in 1 .. Len(seq) : seq[i] = x})

Launched == {w \in Workers : dw[w].pc # "notLaunched"}

\* Run is past the launch loop and every worker it launched has finished
WorkersFinished ==
    /\ runErr = "none"
    /\ runPc \in {"launch", "writeDiff", "returned"}
    /\ launchI = numberOfWorkers
    /\ \A w \in Workers : dw[w].pc \in {"notLaunched", "done"}

InDiffMaps(k) ==
    k \in DOMAIN missingFromSource \cup DOMAIN missingFromTarget \cup DOMAIN diff

\* the key was compared, found equal and dropped
DroppedAsMatch(k) ==
    \E w \in Launched :
        /\ dw[w].pc = "done"
        /\ k \in KeysClassified(dw[w], "Match")

\* the outcomes a key has
OutcomesOf(k) ==
    {o \in {"MissingFromSource", "MissingFromTarget", "Mismatch", "Match",
            "KeysWithError"} :
        \/ o = "MissingFromSource" /\ k \in DOMAIN missingFromSource
        \/ o = "MissingFromTarget" /\ k \in DOMAIN missingFromTarget
        \/ o = "Mismatch" /\ k \in DOMAIN diff
        \/ o = "Match" /\ DroppedAsMatch(k)
        \/ o = "KeysWithError" /\ k \in Range(keysWithError)}

\* C1: once every worker has finished, every candidate key has exactly one
\* outcome among MissingFromSource, MissingFromTarget, Mismatch, Match and
\* KeysWithError.
C1_ExactlyOneOutcome ==
    WorkersFinished =>
        \A k \in Range(diffKeys) : Cardinality(OutcomesOf(k)) = 1

\* C2: the keys of a batch whose retries ran out are in KeysWithError exactly
\* once each and in none of the three diff mappings, also after callbacks of
\* its timed-out attempts have landed.
C2_ExhaustedBatch ==
    \A k \in exhausted :
        /\ Count(keysWithError, k) = 1
        /\ ~InDiffMaps(k)

\* a run has ended with a key of an exhausted batch, and a callback of one of
\* the batch's timed-out attempts has written its entry
C2_Witness ==
    /\ runPc = "returned"
    /\ \E w \in Workers, i \in 1 .. MaxInstances :
          /\ i <= Len(batches[w])
          /\ batches[w][i].returned
          /\ \E k \in exhausted \cap DOMAIN batches[w][i].sourceResults :
                batches[w][i].sourceResults[k].Key # NoKey

\* C3: after a full run numKeysProcessed equals the number of candidate keys.
C3_AllProcessed ==
    WorkersFinished => numKeysProcessed = Len(diffKeys)

\* a full run over the longest key list in which one batch succeeded and
\* another ran out of retries
C3_Witness ==
    /\ WorkersFinished
    /\ Len(diffKeys) = MaxKeys
    /\ exhausted # {}
    /\ Range(diffKeys) \ exhausted # {}

\* a key's fetch on that side completed with an error other than not-found
OtherErrorOn(entry) ==
    entry.Key # NoKey /\ entry.Error # NoErr /\ ~isKeyNotFoundError(entry.Error)

\* C4: a key of a successful batch whose fetch on either side completed with
\* an error other than not-found is added to none of the diff mappings and
\* not to KeysWithError.
C4_FetchErrorSkipped ==
    \A w \in Launched :
        dw[w].pc = "done" =>
            \A k \in DOMAIN dw[w].sourceResults :
                (/\ dw[w].sourceResults[k].Key # NoKey
                 /\ dw[w].targetResults[k].Key # NoKey
                 /\ \/ OtherErrorOn(dw[w].sourceResults[k])
                    \/ OtherErrorOn(dw[w].targetResults[k]))
                => (~InDiffMaps(k) /\ k \notin Range(keysWithError))

Attempted(artifact) == \E i \in 1 .. Len(outputs) : outputs[i].artifact = artifact

Succeeded(artifact) ==
    \E i \in 1 .. Len(outputs) : outputs[i].artifact = artifact /\ outputs[i].ok

RunCompleted == runPc = "returned" /\ runErr = "none"

\* C5 as stated: the diff-keys write and the error-keys write are each
\* attempted whatever the outcome of the other, and the diff-details write
\* comes last.
C5_AllAttempted ==
    RunCompleted =>
        /\ Attempted("diffKeys")
        /\ Attempted("errorKeys")
        /\ \A i \in 1 .. Len(outputs) :
              outputs[i].artifact = "diffDetails" => i = Len(outputs)

\* C5 amended: the writes are attempted in the order diff-keys, error-keys,
\* diff-details and writeDiff stops at the first one that fails: the
\* diff-keys write is always attempted, the error-keys write exactly when the
\* diff-keys write succeeded, the diff-details write exactly when both
\* succeeded, and last.
C5_StopsAtFirstFailure ==
    RunCompleted =>
        /\ Len(outputs) >= 1
        /\ outputs[1].artifact = "diffKeys"
        /\ Attempted("errorKeys") <=> Succeeded("diffKeys")
        /\ Attempted("errorKeys") => outputs[2].artifact = "errorKeys"
        /\ Attempted("diffDetails") <=>
              (Succeeded("diffKeys") /\ Succeeded("errorKeys"))
        /\ Attempted("diffDetails") =>
              (Len(outputs) = 3 /\ outputs[3].artifact = "diffDetails")
        /\ \A i \in 1 .. Len(outputs), j \in 1 .. Len(outputs) :
              outputs[i].artifact = outputs[j].artifact => i = j

\* the diff-keys write failed and nothing else was attempted, although there
\* were keys with error to write
C5_Witness ==
    /\ RunCompleted
    /\ Len(outputs) = 1
    /\ ~outputs[1].ok
    /\ keysWithError # <<>>


\* C6: the reporter stops only at a tick that finds every key processed or
\* on the finish signal, the finish signal is raised only after every
\* launched worker has been joined, and in every run that gets past
\* initialization the reporter eventually stops.
C6_ReporterTerminates ==
    /\ [][(reporter = "running" /\ reporter' = "stopped") =>
             (numKeysProcessed = Len(diffKeys) \/ finChan = "closed")]_vars
    /\ [][(finChan = "open" /\ finChan' = "closed") =>
             (launchI = numberOfWorkers
              /\ \A w \in Workers : dw[w].pc \in {"notLaunched", "done"})]_vars
    /\ (runPc = "reportStatus") ~> (reporter = "stopped")

\* the reporter stopped at a tick, before the finish signal, in a run with keys
C6_Witness ==
    /\ reporter = "stopped"
    /\ finChan = "open"
    /\ Len(diffKeys) > 0
    /\ exhausted # {}

AggregateEmpty ==
    /\ missingFromSource = EmptyMap
    /\ missingFromTarget = EmptyMap
    /\ diff = EmptyMap
    /\ keysWithError = <<>>
    /\ numKeysProcessed = 0
    /\ numKeysWithErrors = 0

\* C7: when loading the key list or opening a bucket fails, Run returns the
\* error with no worker launched, the reporter not started, the aggregate
\* state empty and no artifact written.
C7_FatalErrorAborts ==
    runErr # "none" =>
        /\ runPc = "returned"
        /\ Launched = {}
        /\ \A w \in Workers : batches[w] = <<>>
        /\ reporter = "notStarted"
        /\ finChan = "open"
        /\ AggregateEmpty
        /\ outputs = <<>>

\* Run returned the error of opening the target bucket, the source being open
C7_Witness ==
    /\ runPc = "returned"
    /\ runErr = "initialize"
    /\ sourceBucket = "open"
    /\ targetBucket = "nil"

\* both fetches of key k of worker w completed and were merged
Completed(w, k) ==
    /\ k \in DOMAIN dw[w].sourceResults
    /\ dw[w].sourceResults[k].Key # NoKey
    /\ dw[w].targetResults[k].Key # NoKey

\* C8: a key whose source fetch returned not-found and whose target fetch
\* did not is in MissingFromSource with the target's document and in no
\* other mapping; a key whose target fetch returned not-found and whose
\* source fetch did not is in MissingFromTarget with the source's document
\* and in no other mapping.
C8_MissingOnOneSide ==
    \A w \in Launched :
        dw[w].pc = "done" =>
            \A k \in DOMAIN dw[w].sourceResults :
                LET src == dw[w].sourceResults[k]
                    tgt == dw[w].targetResults[k]
                IN  Completed(w, k) =>
                      /\ (src.Error = KeyNotFoundErrMsg /\ tgt.Error # KeyNotFoundErrMsg)
                            => /\ k \in DOMAIN missingFromSource
                               /\ missingFromSource[k] = tgt.Result
                               /\ k \notin DOMAIN missingFromTarget
                               /\ k \notin DOMAIN diff
                      /\ (src.Error # KeyNotFoundErrMsg /\ tgt.Error = KeyNotFoundErrMsg)
                            => /\ k \in DOMAIN missingFromTarget
                               /\ missingFromTarget[k] = src.Result
                               /\ k \notin DOMAIN missingFromSource
                               /\ k \notin DOMAIN diff

\* a key missing from the target was put in MissingFromTarget with the
\* document the source returned
C8_Witness ==
    \E w \in Launched, k \in Keys, d \in Docs :
        /\ dw[w].pc = "done"
        /\ Completed(w, k)
        /\ dw[w].sourceResults[k].Result = Ptr(d)
        /\ dw[w].targetResults[k].Error = KeyNotFoundErrMsg
        /\ k \in DOMAIN missingFromTarget
        /\ missingFromTarget[k] = Ptr(d)

\* the two documents differ in value, flags, data-type tag or version token
DocsDiffer(d1, d2) ==
    \/ d1.Value # d2.Value
    \/ d1.Flags # d2.Flags
    \/ d1.Datatype # d2.Datatype
    \/ d1.Cas # d2.Cas

\* C9: a key whose two fetches both succeeded is in Mismatch, with the list
\* of the source document and the target document, exactly when the
\* documents differ in value, flags, data-type tag or version token;
\* otherwise it is in no mapping.
C9_MismatchIffDocsDiffer ==
    \A w \in Launched :
        dw[w].pc = "done" =>
            \A k \in DOMAIN dw[w].sourceResults :
                LET src == dw[w].sourceResults[k]
                    tgt == dw[w].targetResults[k]
                IN  (Completed(w, k) /\ src.Error = NoErr /\ tgt.Error = NoErr) =>
                      /\ k \in DOMAIN diff <=> DocsDiffer(src.Result[1], tgt.Result[1])
                      /\ k \in DOMAIN diff => diff[k] = <<src.Result, tgt.Result>>
                      /\ k \notin DOMAIN missingFromSource
                      /\ k \notin DOMAIN missingFromTarget

\* two documents that differ in the version token only were put in Mismatch
C9_Witness ==
    \E w \in Launched, k \in Keys :
        /\ dw[w].pc = "done"
        /\ Completed(w, k)
        /\ dw[w].sourceResults[k].Error = NoErr
        /\ dw[w].targetResults[k].Error = NoErr
        /\ dw[w].sourceResults[k].Result[1].Cas # dw[w].targetResults[k].Result[1].Cas
        /\ [dw[w].sourceResults[k].Result[1] EXCEPT !.Cas = 0] =
              [dw[w].targetResults[k].Result[1] EXCEPT !.Cas = 0]
        /\ k \in DOMAIN diff

\* the keys of workers 0 .. n-1, one worker after the other
RECURSIVE KeysUpTo(_)
KeysUpTo(n) == IF n = 0 THEN <<>> ELSE KeysUpTo(n - 1) \o dw[n - 1].keys

\* C10: the ranges handed to the workers are contiguous and disjoint and
\* cover the key list in order: the keys of the workers launched so far are
\* a prefix of the key list, and the whole list once the loop is over; every
\* launched worker has at least one key and a worker with an empty range is
\* not launched; every key is handed to exactly one worker.
C10_PartitionExact ==
    (runErr = "none" /\ runPc \in {"launch", "writeDiff", "returned"}) =>
        /\ KeysUpTo(launchI) = SubSeq(diffKeys, 1, Len(KeysUpTo(launchI)))
        /\ launchI = numberOfWorkers => KeysUpTo(launchI) = diffKeys
        /\ \A w \in Workers :
              /\ w \in Launched => (w < launchI /\ dw[w].keys # <<>>)
              /\ (w < launchI /\ w \notin Launched) =>
                    LET r == BalanceLoad(numberOfWorkers, Len(diffKeys))[w]
                    IN  r[1] = r[2]
        /\ launchI = numberOfWorkers =>
              \A k \in Range(diffKeys) :
                  Cardinality({w \in Launched : k \in Range(dw[w].keys)}) = 1

\* the launch loop is over, a worker was launched and another, whose range
\* was empty, was not
C10_Witness ==
    /\ runErr = "none"
    /\ runPc = "launch"
    /\ launchI = numberOfWorkers
    /\ Launched # {}
    /\ \E w \in Workers : w < numberOfWorkers /\ w \notin Launched

\* the entry of a result map was written by its callback
Populated(entry) == entry.Key # NoKey

\* C11: whenever send returns without error every key of the batch has a
\* populated entry on both sides (its callback wrote the entry before the
\* completion counter counted it), so that the results a worker has merged
\* never hold an empty placeholder.
C11_MergedEntriesPopulated ==
    \A w \in Launched :
        \A k \in DOMAIN dw[w].sourceResults :
            Populated(dw[w].sourceResults[k]) /\ Populated(dw[w].targetResults[k])

\* seq without its i-th element
Remove(seq, i) == SubSeq(seq, 1, i - 1) \o SubSeq(seq, i + 1, Len(seq))

\* a step of a completion callback: batch instances change and no worker moves
CallbackLands ==
    /\ batches' # batches
    /\ \A w \in Workers :
          /\ dw'[w].pc = dw[w].pc
          /\ dw'[w].attempt = dw[w].attempt
          /\ dw'[w].index = dw[w].index

\* the step changes one batch instance only, which keeps its keys, or drops
\* one returned instance whose last callback has run
OneInstanceChanges ==
    \E w \in Workers :
        /\ \A v \in Workers \ {w} : batches'[v] = batches[v]
        /\ \E i \in 1 .. Len(batches[w]) :
              \/ /\ Len(batches'[w]) = Len(batches[w])
                 /\ batches'[w] = [batches[w] EXCEPT ![i] = batches'[w][i]]
                 /\ batches'[w][i].keys = batches[w][i].keys
                 /\ batches'[w][i].returned = batches[w][i].returned
              \/ /\ batches[w][i].returned
                 /\ batches'[w] = Remove(batches[w], i)

\* worker w's result maps change in this step
ResultsChange(w) ==
    \/ dw'[w].sourceResults # dw[w].sourceResults
    \/ dw'[w].targetResults # dw[w].targetResults

\* C12: a worker's result maps are written only by mergeResults after a
\* send that returned nil, with the entries of the batch instance just sent;
\* a completion callback, late ones included, changes the one batch instance
\* that issued it and nothing else: not the worker's maps, not another
\* attempt or batch, not the aggregate state.
C12_LateCallbackFrame ==
    /\ [][\A w \in Workers :
            ResultsChange(w) =>
                /\ dw[w].pc = "send"
                /\ DoneChanReady(batches[w][Current(w)])
                /\ dw'[w].sourceResults =
                      mergeResults(dw[w], batches[w][Current(w)]).sourceResults
                /\ dw'[w].targetResults =
                      mergeResults(dw[w], batches[w][Current(w)]).targetResults]_vars
    /\ [][CallbackLands =>
            /\ dw' = dw
            /\ aggVars' = aggVars
            /\ runVars' = runVars
            /\ OneInstanceChanges]_vars

\* with one attempt per batch: a callback has written its entry in a batch
\* instance after that instance was merged, and the worker's copy of the
\* entry is still the placeholder it cloned
C12_Witness ==
    /\ maxNumOfSendBatchRetry = 1
    /\ \E w \in Launched, i \in 1 .. MaxInstances :
          /\ i <= Len(batches[w])
          /\ batches[w][i].returned
          /\ \E k \in DOMAIN batches[w][i].sourceResults :
                /\ Populated(batches[w][i].sourceResults[k])
                /\ k \in DOMAIN dw[w].sourceResults
                /\ ~Populated(dw[w].sourceResults[k])

\* what the callback of key k on that side records
RecordedEntry(k, side) ==
    [Key |-> k, Result |-> answers[<<side, k>>].Result,
     Error |-> answers[<<side, k>>].Error]

\* the key was classified: it is in a diff map or was dropped as a match
Classified(k) == InDiffMaps(k) \/ DroppedAsMatch(k)

\* C13: a key is classified only after both its fetches have completed and
\* recorded their result or error: no key of a worker that has not run diff
\* is classified, and a classified key has, in its worker's maps, the entries
\* the two callbacks wrote, never a placeholder.
C13_ClassifiedAfterBothFetches ==
    \A w \in Launched :
        \A k \in Range(dw[w].keys) :
            Classified(k) =>
                /\ dw[w].pc = "done"
                /\ Completed(w, k)
                /\ dw[w].sourceResults[k] = RecordedEntry(k, "source")
                /\ dw[w].targetResults[k] = RecordedEntry(k, "target")

\* a worker has run diff with one key whose fetch had completed on one side
\* only, which it skipped, and another key, which it put in a diff map
C13_Witness ==
    \E w \in Launched :
        /\ dw[w].pc = "done"
        /\ \E k \in DOMAIN dw[w].sourceResults :
              /\ Populated(dw[w].sourceResults[k]) # Populated(dw[w].targetResults[k])
              /\ ~Classified(k)
        /\ \E k \in DOMAIN dw[w].sourceResults : Completed(w, k) /\ InDiffMaps(k)

\* the callbacks of that side of batch instance b that have counted themselves
CountedCallbacks(b, side) ==
    {k \in Range(b.keys) : b.cb[<<k, side>>].st # "inflight"}

\* that side's half of the gate of b was released: the side's counter has
\* reached len(b.keys) and the callback that counted last has gone on to Done
Released(b, side) ==
    /\ CountOf(b, side) = Len(b.keys)
    /\ ~\E k \in Range(b.keys) :
          /\ b.cb[<<k, side>>].st = "counted"
          /\ b.cb[<<k, side>>].newCount = Len(b.keys)

\* worker w's send returns nil in this step
SendReturnsNil(w) ==
    dw[w].pc = "send" /\ dw'[w].pc \in {"getResults", "diff"}

\* worker w's send returns the timeout error in this step
SendReturnsError(w) ==
    /\ dw[w].pc = "send"
    /\ \/ dw'[w].pc = "count"
       \/ dw'[w].pc = "send" /\ dw'[w].attempt = dw[w].attempt + 1

\* C14: in every batch instance, also one whose send has timed out, a side's
\* counter counts the callbacks of that side, the side's half of the gate is
\* released exactly when the counter has reached the number of keys, once,
\* and the gate never goes below zero; send returns nil only with both
\* counters at the batch size and the gate at zero, and any other return is
\* the timeout error, after which nothing is merged.
C14_GateReleasedOncePerSide ==
    /\ [](\A w \in Workers :
            \A i \in 1 .. Len(batches[w]) :
                LET b == batches[w][i]
                IN  /\ \A side \in Sides :
                          /\ CountOf(b, side) = Cardinality(CountedCallbacks(b, side))
                          /\ CountOf(b, side) <= Len(b.keys)
                    /\ b.waitGroup >= 0
                    /\ b.waitGroup =
                          2 - Cardinality({side \in Sides : Released(b, side)}))
    /\ [][\A w \in Workers :
            /\ SendReturnsNil(w) =>
                  LET b == batches[w][Current(w)]
                  IN  /\ b.sourceResultCount = Len(b.keys)
                      /\ b.targetResultCount = Len(b.keys)
                      /\ b.waitGroup = 0
            /\ (dw[w].pc = "send" /\ dw'[w] # dw[w]) =>
                  (SendReturnsNil(w) \/ SendReturnsError(w))
            /\ SendReturnsError(w) => ~ResultsChange(w)]_vars

\* with one attempt per batch: in an instance whose send timed out and that
\* still has a callback running, both halves of the gate have been released
C14_Witness ==
    /\ maxNumOfSendBatchRetry = 1
    /\ \E w \in Launched, i \in 1 .. MaxInstances :
          /\ i <= Len(batches[w])
          /\ batches[w][i].returned
          /\ Range(batches[w][i].keys) \subseteq exhausted
          /\ batches[w][i].waitGroup = 0
          /\ Len(batches[w][i].keys) = MaxBatchSize

\* every worker Run was to launch has been launched and has finished
AllWorkersDone ==
    /\ launchI = numberOfWorkers
    /\ \A w \in Workers : dw[w].pc \in {"notLaunched", "done"}

\* C15: no wait is unbounded.  A batch is attempted at most
\* maxNumOfSendBatchRetry times, and in every run that gets past
\* initialization Run passes the join and reaches the writing of the
\* outputs, also when callbacks never arrive; Run is there only when every
\* launched worker has returned from all its sends and finished its diff.
C15_NoUnboundedWait ==
    /\ [](\A w \in Workers : dw[w].attempt <= maxNumOfSendBatchRetry)
    /\ [](runPc \in {"writeDiff", "returned"} /\ runErr = "none" => AllWorkersDone)
    /\ (runPc = "reportStatus") ~> (runPc = "writeDiff")

\* Run is writing the outputs after a run in which every batch of two
\* workers ran out of attempts and no callback ever counted or wrote: the
\* sends returned by their timers alone
C15_Witness ==
    /\ runPc = "writeDiff"
    /\ Cardinality(Launched) = MaxWorkers
    /\ maxNumOfSendBatchRetry = MaxAttempts
    /\ exhausted = Range(diffKeys)

DoneWorkers == {w \in Workers : dw[w].pc = "done"}

\* the union of the local maps Local(dw[w]) of the workers that have merged
UnionOfLocal(Local(_)) ==
    [k \in UNION {DOMAIN Local(dw[w]) : w \in DoneWorkers} |->
        LET w == CHOOSE v \in DoneWorkers : k \in DOMAIN Local(dw[v])
        IN  Local(dw[w])[k]]

\* C16: no update of addDiff or addKeysWithError is lost, in whatever order
\* the workers merge: the three aggregate maps are the union of the local
\* diffs of the workers that have merged, and the error list holds every key
\* of every batch that ran out of attempts, once; the outputs are written
\* only after every launched worker has merged, with these contents.
C16_NoLostUpdate ==
    /\ missingFromSource = UnionOfLocal(LocalMissingFromSource)
    /\ missingFromTarget = UnionOfLocal(LocalMissingFromTarget)
    /\ diff = UnionOfLocal(LocalDiff)
    /\ Range(keysWithError) = exhausted
    /\ Len(keysWithError) = Cardinality(exhausted)
    /\ numKeysWithErrors = Len(keysWithError)
    /\ (runPc \in {"writeDiff", "returned"} /\ runErr = "none") => AllWorkersDone
    /\ \A i \in 1 .. Len(outputs) :
          /\ AllWorkersDone
          /\ outputs[i].content = ArtifactContent(outputs[i].artifact)

\* the three outputs were written after two workers had each merged a
\* difference of their own into the aggregate
C16_Witness ==
    /\ runPc = "returned"
    /\ Len(outputs) = 3
    /\ \E v \in DoneWorkers, w \in DoneWorkers :
          /\ v # w
          /\ DOMAIN LocalMissingFromSource(dw[v]) \cup DOMAIN LocalMissingFromTarget(dw[v])
                \cup DOMAIN LocalDiff(dw[v]) # {}
          /\ DOMAIN LocalMissingFromSource(dw[w]) \cup DOMAIN LocalMissingFromTarget(dw[w])
                \cup DOMAIN LocalDiff(dw[w]) # {}

\* the number of keys of worker w in the batches for which
\* sendBatchWithRetry has returned
DecidedKeys(w) ==
    CASE dw[w].pc = "notLaunched" -> 0
      [] dw[w].pc \in {"getResults", "send", "count"} -> dw[w].index
      [] dw[w].pc \in {"diff", "done"} -> Len(dw[w].keys)

\* worker w's sendBatchWithRetry returns in this step
BatchDecided(w) ==
    dw[w].pc \in {"send", "count"} /\ dw'[w].pc \in {"getResults", "diff"}

\* C17: numKeysProcessed is increased once per batch outcome, success or
\* exhausted retry, by the key count of the batch, when sendBatchWithRetry
\* returns, and by nothing else: not by a callback, not by an attempt that
\* is retried.  It never decreases, is the sum of the sizes of the batches
\* whose outcome is decided, and is at most the number of candidate keys.
C17_ProcessedPerBatchOutcome ==
    /\ [](numKeysProcessed = SumOver(Workers, [w \in Workers |-> DecidedKeys(w)]))
    /\ [](numKeysProcessed <= Len(diffKeys))
    /\ [][/\ numKeysProcessed' >= numKeysProcessed
          /\ numKeysProcessed' # numKeysProcessed =>
                \E w \in Workers :
                    /\ BatchDecided(w)
                    /\ \A v \in Workers \ {w} : dw'[v] = dw[v]
                    /\ numKeysProcessed' =
                          numKeysProcessed + (dw[w].endIndex - dw[w].startIndex)
          /\ \A w \in Workers : BatchDecided(w) =>
                numKeysProcessed' # numKeysProcessed
          /\ CallbackLands => numKeysProcessed' = numKeysProcessed
          /\ \A w \in Workers :
                (SendReturnsError(w) /\ dw'[w].pc = "send") =>
                    numKeysProcessed' = numKeysProcessed]_vars

\* a worker is in the last attempt of a batch after an attempt that failed
\* and whose callbacks have counted themselves, and numKeysProcessed counts
\* the other batch only
C17_Witness ==
    \E w \in Launched :
        /\ dw[w].pc = "send"
        /\ dw[w].attempt = MaxAttempts
        /\ Len(batches[w]) = 2
        /\ batches[w][1].returned
        /\ batches[w][1].sourceResultCount = Len(batches[w][1].keys)
        /\ numKeysProcessed > 0
        /\ numKeysProcessed = Len(diffKeys) - (dw[w].endIndex - dw[w].startIndex)

\* the keys of worker w whose batch has its outcome recorded: merged into
\* the worker's maps, or recorded as keys with error
Recorded(w) == (DOMAIN dw[w].sourceResults) \cup (exhausted \cap Range(dw[w].keys))

\* C18: a worker issues its batches one after another over consecutive
\* index ranges that cover its partition once, in order: a batch starts at
\* a multiple of the batch size, where the previous batch ended, and ends
\* batchSize keys further or at the end of the partition; every batch has
\* at least one key, every batch but the last exactly batchSize; every
\* attempt is sent with exactly the keys of that range; a batch is started
\* only when the outcome of all keys before it is recorded, and the worker
\* goes on to diff only when that holds for its whole partition.
C18_ConsecutiveBatches ==
    \A w \in Launched :
        LET d == dw[w]
            L == Len(d.keys)
        IN  /\ L >= 1
            /\ d.index < L
            /\ d.index % batchSize = 0
            /\ d.pc = "getResults" /\ d.index > 0 =>
                  /\ d.startIndex = d.index - batchSize
                  /\ d.endIndex = d.index
            /\ d.pc \in {"send", "count", "diff", "done"} =>
                  /\ d.startIndex = d.index
                  /\ d.endIndex = Min(d.index + batchSize, L)
                  /\ d.endIndex - d.startIndex >= 1
                  /\ d.endIndex - d.startIndex <= batchSize
                  /\ d.endIndex < L => d.endIndex - d.startIndex = batchSize
            /\ d.pc \in {"diff", "done"} => d.endIndex = L
            /\ d.pc = "send" =>
                  batches[w][Current(w)].keys = Slice(d.keys, d.startIndex, d.endIndex)
            /\ \A i \in 1 .. Len(batches[w]) :
                  /\ batches[w][i].keys # <<>>
                  /\ \E n \in 0 .. d.index :
                        /\ n % batchSize = 0
                        /\ batches[w][i].keys =
                              Slice(d.keys, n, Min(n + batchSize, L))
            /\ Recorded(w) =
                  Range(Slice(d.keys, 0,
                              IF d.pc = "count" THEN d.endIndex ELSE DecidedKeys(w)))
            /\ \A k \in Range(d.keys) :
                  ~(k \in DOMAIN d.sourceResults /\ k \in exhausted)

\* a worker with three keys and batches of two is sending its second and
\* last batch, of one key, after a first batch that was merged
C18_Witness ==
    \E w \in Launched :
        /\ Len(dw[w].keys) = 3
        /\ batchSize = 2
        /\ dw[w].pc = "send"
        /\ dw[w].startIndex = 2
        /\ dw[w].endIndex = 3
        /\ batches[w][Current(w)].keys = <<dw[w].keys[3]>>
        /\ DOMAIN dw[w].sourceResults = {dw[w].keys[1], dw[w].keys[2]}

\* C19: in every state the reporter can sample, numKeysWithErrors is at most
\* numKeysProcessed: the error count of a batch that ran out of attempts is
\* not visible before the keys of the batch are counted as processed.
C19_ErrorsWithinProcessed ==
    reporter = "running" => numKeysWithErrors <= numKeysProcessed

====
